---- MODULE Spec2Model ----
(***************************************************************************)
(* Composed image retrieval (CLIP4Cir with SPN): caption composition,      *)
(* target-ratio padding, dataset adapters, gallery index building and      *)
(* ranking, modelled from src/src/data_utils.py and src/src/inference.py.  *)
(***************************************************************************)
EXTENDS Integers, Sequences, FiniteSets, TLC

VARIABLES
    \* generate_randomized_fiq_caption
    captions,            \* the pair of captions, each a sequence of characters
    type,                \* the selector argument (-1: no override)
    random_num,          \* the value compared with the thresholds, [num, den]
    caption,             \* the returned caption
    cap_pc,              \* "call" before the call, "done" after
    \* TargetPad.__call__
    image_size,          \* <<w, h>> of the input image
    target_ratio,        \* self.target_ratio as [num, den]
    padding,             \* [hp, vp, hp, vp] handed to F.pad (<<>> when not padded)
    padded_size,         \* <<w, h>> of the returned image
    pad_pc,              \* "call" before the call, "done" after
    \* squarepad_transform and targetpad_transform
    image_mode,          \* the PIL mode of the input image
    dim,                 \* the output dimension of the transform
    output_shape,        \* the shape of the tensor returned
    \* inference: extract_index_features, then get_predictions
    dataset,             \* the classic-mode items: [name, feature, ok]
    loader_pos,          \* items of the DataLoader consumed so far
    index_names,         \* the identifier list being built
    index_features,      \* the embedding matrix being built, one row per entry
    predicted_features,  \* the composed query embedding
    distances,           \* the distance row of get_predictions
    sorted_indices,      \* torch.argsort(distances)
    sorted_index_names,  \* the returned ranking
    inf_pc,              \* "extract", "rank", "done", "raised", "printed"
    dataset_cls,         \* the adapter class of the dataset handed to the DataLoader
    calls,               \* calls of inference() made in the session
    index_builds,        \* times extract_index_features was entered in the session
    printed,             \* what __main__ printed (<<>>: nothing yet)
    \* the dataset adapters and the gallery builds made from them
    files,               \* the manifests under data_path
    args,                \* the constructor's arguments
    self,                \* the fields of the adapter object
    length,              \* what the adapter's length is (-1: not asked yet)
    iter_pos,            \* classic-mode items consumed by the index build
    gallery_names,       \* the identifier list of the build under way
    builds,              \* the identifier lists of the builds completed
    ds_pc,               \* "new", "raised", "constructed", "iterating", "built", ...
    got_item             \* what the last relative-mode __getitem__ returned

vars == <<captions, type, random_num, caption, cap_pc,
          image_size, target_ratio, padding, padded_size, pad_pc,
          image_mode, dim, output_shape,
          dataset, loader_pos, index_names, index_features, predicted_features,
          distances, sorted_indices, sorted_index_names, inf_pc,
          dataset_cls, calls, index_builds, printed,
          files, args, self, length, iter_pos, gallery_names, builds, ds_pc, got_item>>

adapterVars == <<files, args, self, length, iter_pos, gallery_names, builds, ds_pc, got_item>>

inferenceVars == <<dataset, loader_pos, index_names, index_features, predicted_features,
                   distances, sorted_indices, sorted_index_names, inf_pc>>

sessionVars == <<dataset_cls, calls, index_builds, printed>>

captionVars == <<captions, type, random_num, caption, cap_pc>>
padVars == <<image_size, target_ratio, padding, padded_size, pad_pc>>
transformVars == <<image_mode, dim, output_shape>>

(***************************************************************************)
(* Bounds of the model.                                                    *)
(***************************************************************************)
MaxCapLen == 2          \* longest caption fragment drawn
RandUnits == 8          \* random.random() draws k / RandUnits, k in 0..RandUnits-1
MaxSide == 8            \* largest image width or height drawn
MaxDim == 3             \* largest output dimension drawn
MaxGallery == 3         \* most items of the gallery dataset
MaxCalls == 2           \* most calls of inference() in a session
MaxSplitNames == 2      \* most names listed over the image-split files
MaxCapTriplets == 2     \* most triplets listed over the caption files
MaxExtendTriplets == 1  \* most triplets of the extended manifest
MaxSnapshotTriplets == 1 \* most triplets of the train set a snapshot was taken of
MaxBuilds == 2          \* gallery builds made from the same manifests

(***************************************************************************)
(* Rationals as [num, den] with den > 0.                                   *)
(***************************************************************************)
Q(n, d) == [num |-> n, den |-> d]
LessQ(a, b) == a.num * b.den < b.num * a.den

\* Python's int() on a quotient n / d (d > 0): truncation toward zero.
TruncDiv(n, d) == IF n >= 0 THEN n \div d ELSE -((-n) \div d)

Max(a, b) == IF a >= b THEN a ELSE b
Min(a, b) == IF a <= b THEN a ELSE b

RECURSIVE SeqsUpTo(_, _)
SeqsUpTo(S, n) ==
    IF n = 0 THEN {<<>>}
    ELSE LET shorter == SeqsUpTo(S, n - 1)
         IN shorter \cup {Append(s, c) : s \in shorter, c \in S}

(***************************************************************************)
(* generate_randomized_fiq_caption (data_utils.py 304-322)                 *)
(***************************************************************************)
StripChars == {".", "?", ",", " "}
CaptionChars == {"a", ".", " "}

RECURSIVE LStrip(_)
LStrip(s) ==
    IF s # <<>> /\ Head(s) \in StripChars THEN LStrip(Tail(s)) ELSE s

RECURSIVE RStrip(_)
RStrip(s) ==
    IF s # <<>> /\ s[Len(s)] \in StripChars THEN RStrip(SubSeq(s, 1, Len(s) - 1)) ELSE s

\* str.strip('.?, ')
Strip(s) == RStrip(LStrip(s))

AndWord == <<" ", "a", "n", "d", " ">>

\* the selector override of lines 306-313
OverrideRandom(t, r) ==
    IF t = 0 THEN Q(12, 100)
    ELSE IF t = 1 THEN Q(37, 100)
    ELSE IF t = 2 THEN Q(62, 100)
    ELSE IF t = 3 THEN Q(88, 100)
    ELSE r

\* the if/elif chain of lines 314-321
ComposeCaption(caps, r) ==
    IF LessQ(r, Q(25, 100))
    THEN Strip(caps[1]) \o AndWord \o Strip(caps[2])
    ELSE IF LessQ(Q(25, 100), r) /\ LessQ(r, Q(50, 100))
    THEN Strip(caps[2]) \o AndWord \o Strip(caps[1])
    ELSE IF LessQ(Q(50, 100), r) /\ LessQ(r, Q(75, 100))
    THEN Strip(caps[1])
    ELSE Strip(caps[2])

InitCaption ==
    /\ captions \in SeqsUpTo(CaptionChars, MaxCapLen) \X SeqsUpTo(CaptionChars, MaxCapLen)
    /\ type \in -1..3
    /\ random_num = Q(0, 1)
    /\ caption = <<>>
    /\ cap_pc = "call"

generate_randomized_fiq_caption ==
    /\ cap_pc = "call"
    /\ \E k \in 0..(RandUnits - 1) :
          /\ random_num' = OverrideRandom(type, Q(k, RandUnits))
          /\ caption' = ComposeCaption(captions, OverrideRandom(type, Q(k, RandUnits)))
    /\ cap_pc' = "done"
    /\ UNCHANGED <<captions, type>>

(***************************************************************************)
(* TargetPad.__call__ (data_utils.py 55-64)                                *)
(***************************************************************************)
\* target ratios drawn: 1, 5/4 (the command line's default 1.25), 3/2, 2
TargetRatios == {Q(1, 1), Q(5, 4), Q(3, 2), Q(2, 1)}

\* PadAmount without the clamp at 0
PadAmountUnclamped(w, h, ratio, side) ==
    TruncDiv(Max(w, h) * ratio.den - side * ratio.num, 2 * ratio.num)

\* max(int((scaled_max_wh - side) / 2), 0) with scaled_max_wh = max(w, h) / target_ratio
PadAmount(w, h, ratio, side) ==
    Max(TruncDiv(Max(w, h) * ratio.den - side * ratio.num, 2 * ratio.num), 0)

\* padding = [hp, vp, hp, vp], or <<>> when the image is returned as it is
TargetPadPadding(w, h, ratio) ==
    IF LessQ(Q(Max(w, h), Min(w, h)), ratio) THEN <<>>
    ELSE LET hp == PadAmount(w, h, ratio, w)
             vp == PadAmount(w, h, ratio, h)
         IN <<hp, vp, hp, vp>>

\* F.pad(image, [left, top, right, bottom], 0, 'constant')
PadSize(w, h, p) ==
    IF p = <<>> THEN <<w, h>> ELSE <<w + p[1] + p[3], h + p[2] + p[4]>>

InitPad ==
    /\ image_size \in (1..MaxSide) \X (1..MaxSide)
    /\ target_ratio \in TargetRatios
    /\ padding = <<>>
    /\ padded_size = <<0, 0>>
    /\ pad_pc = "call"

TargetPad ==
    /\ pad_pc = "call"
    /\ padding' = TargetPadPadding(image_size[1], image_size[2], target_ratio)
    /\ padded_size' = PadSize(image_size[1], image_size[2],
                              TargetPadPadding(image_size[1], image_size[2], target_ratio))
    /\ pad_pc' = "done"
    /\ UNCHANGED <<image_size, target_ratio>>

(***************************************************************************)
(* SquarePad.__call__ (data_utils.py 32-38)                                *)
(***************************************************************************)
\* hp = int((max_wh - w) / 2), vp = int((max_wh - h) / 2)
SquarePadPadding(w, h) ==
    LET hp == TruncDiv(Max(w, h) - w, 2)
        vp == TruncDiv(Max(w, h) - h, 2)
    IN <<hp, vp, hp, vp>>

SquarePad ==
    /\ pad_pc = "call"
    /\ padding' = SquarePadPadding(image_size[1], image_size[2])
    /\ padded_size' = PadSize(image_size[1], image_size[2],
                              SquarePadPadding(image_size[1], image_size[2]))
    /\ pad_pc' = "squared"
    /\ UNCHANGED <<image_size, target_ratio>>

(***************************************************************************)
(* squarepad_transform and targetpad_transform (data_utils.py 67-97)       *)
(***************************************************************************)
ImageModes == {"L", "RGB", "RGBA"}

\* the bands of a PIL mode
Bands(mode) == IF mode = "L" THEN 1 ELSE IF mode = "RGB" THEN 3 ELSE 4

\* _convert_image_to_rgb: image.convert("RGB")
ConvertToRgb(mode) == "RGB"

\* Resize(dim): the shorter side becomes dim, the longer int(dim * long / short)
ResizeSize(w, h, d) ==
    IF w <= h THEN <<d, TruncDiv(d * h, w)>> ELSE <<TruncDiv(d * w, h), d>>

\* int(round(n / 2.0)) for n >= 0: Python rounds a half to the even neighbour
RoundHalf(n) ==
    IF n % 2 = 0 THEN n \div 2
    ELSE IF (n \div 2) % 2 = 0 THEN n \div 2 ELSE n \div 2 + 1

\* CenterCrop without the crop
CenterCropNone(w, h, d) == <<w, h>>

\* CenterCrop(dim): an image smaller than the crop is zero-padded to it, then
\* the box of d x d at int(round((side - d) / 2)) is cut out
CenterCropSize(w, h, d) ==
    LET pw == Max(w, d)
        ph == Max(h, d)
        left == RoundHalf(pw - d)
        top == RoundHalf(ph - d)
    IN <<Min(left + d, pw) - left, Min(top + d, ph) - top>>

\* ToTensor on an image of this mode and size: (bands, height, width)
TensorShape(mode, size) == <<Bands(mode), size[2], size[1]>>

\* Compose([pad, Resize(dim), CenterCrop(dim), _convert_image_to_rgb, ToTensor(), Normalize])
TransformShape(mode, size, d) ==
    LET resized == ResizeSize(size[1], size[2], d)
        cropped == CenterCropSize(resized[1], resized[2], d)
    IN TensorShape(ConvertToRgb(mode), cropped)

InitTransform ==
    /\ image_mode \in ImageModes
    /\ dim \in 1..MaxDim
    /\ output_shape = <<>>

squarepad_transform ==
    /\ pad_pc = "call"
    /\ padding' = SquarePadPadding(image_size[1], image_size[2])
    /\ padded_size' = PadSize(image_size[1], image_size[2],
                              SquarePadPadding(image_size[1], image_size[2]))
    /\ output_shape' =
          TransformShape(image_mode,
                         PadSize(image_size[1], image_size[2],
                                 SquarePadPadding(image_size[1], image_size[2])), dim)
    /\ pad_pc' = "squarepad_transform"
    /\ UNCHANGED <<image_size, target_ratio, image_mode, dim>>

targetpad_transform ==
    /\ pad_pc = "call"
    /\ padding' = TargetPadPadding(image_size[1], image_size[2], target_ratio)
    /\ padded_size' = PadSize(image_size[1], image_size[2],
                              TargetPadPadding(image_size[1], image_size[2], target_ratio))
    /\ output_shape' =
          TransformShape(image_mode,
                         PadSize(image_size[1], image_size[2],
                                 TargetPadPadding(image_size[1], image_size[2], target_ratio)),
                         dim)
    /\ pad_pc' = "targetpad_transform"
    /\ UNCHANGED <<image_size, target_ratio, image_mode, dim>>

(***************************************************************************)
(* Embeddings: two-dimensional fixed-point vectors, Unit standing for 1.0. *)
(***************************************************************************)
\* the fixed-point scale: Unit stands for the 1 of "1 - predicted_features @ ..."
Unit == 5

Dot(a, b) == a[1] * b[1] + a[2] * b[2]

\* the L2 norm, exact for the vectors drawn
Norm(v) == CHOOSE n \in 0..(Dot(v, v)) : n * n = Dot(v, v)

\* F.normalize(x, dim=-1): x / max(norm(x), eps)
Normalize(v) ==
    IF Norm(v) = 0 THEN v
    ELSE <<(v[1] * Unit) \div Norm(v), (v[2] * Unit) \div Norm(v)>>

\* what clip_model.encode_image returns for the gallery images drawn
GalleryFeatures == {<<5, 0>>, <<0, 5>>, <<6, 8>>, <<-5, 0>>}

\* what combining_function returns for the queries drawn (predictions, 81-97):
\* two unit-norm embeddings, and the unnormalised sums <<10, 0>> and <<-6, -8>>
QueryFeatures == {<<5, 0>>, <<3, 4>>, <<10, 0>>, <<-6, -8>>}

(***************************************************************************)
(* WikiartDataset (data_utils.py 280-302) and the loop of                  *)
(* extract_index_features (inference.py 135-147)                           *)
(***************************************************************************)
ImageName(k) == <<"img", k>>

\* the datasets drawn: item k is named ImageName(k); ok is FALSE when
\* PIL.Image.open or preprocess raises for it
Datasets ==
    UNION {[1..n -> [feature : GalleryFeatures, ok : BOOLEAN]] : n \in 0..MaxGallery}

\* the adapter classes a classic-mode dataset can be an object of
DatasetClasses == {"WikiartDataset", "FashionIQDataset", "CIRRDataset", "CIRDataset"}

\* PIL.Image.open or preprocess raising inside __getitem__ leaves the call as
\* an exception: only CIRDataset.__getitem__ has no try/except around them
ItemRaises(cls, ds, index) == cls = "CIRDataset" /\ ~ds[index].ok

\* __getitem__ of WikiartDataset, FashionIQDataset and CIRRDataset in classic
\* mode: (image_name, image), or None after the except branch
GetItem(ds, index) ==
    IF ds[index].ok
    THEN [none |-> FALSE, name |-> ImageName(index), feature |-> ds[index].feature]
    ELSE [none |-> TRUE]

\* collate_fn over the one-item batch: a None item leaves nothing to yield
Collate(item) == IF item.none THEN <<>> ELSE <<item>>

\* ExtendNames inserting at the front
ExtendNamesFront(names, batch) == [i \in 1..Len(batch) |-> batch[i].name] \o names

\* index_names.extend(names)
ExtendNames(names, batch) == names \o [i \in 1..Len(batch) |-> batch[i].name]

\* torch.vstack((index_features, batch_features))
VStack(features, batch) == features \o [i \in 1..Len(batch) |-> batch[i].feature]

InitInference ==
    /\ dataset \in Datasets
    /\ loader_pos = 0
    /\ index_names = <<>>
    /\ index_features = <<>>
    /\ predicted_features = <<0, 0>>
    /\ distances = <<>>
    /\ sorted_indices = <<>>
    /\ sorted_index_names = <<>>
    /\ inf_pc = "extract"

\* one iteration of the for loop of extract_index_features
ExtractStep ==
    /\ inf_pc = "extract"
    /\ loader_pos < Len(dataset)
    /\ ~ItemRaises(dataset_cls, dataset, loader_pos + 1)
    /\ LET batch == Collate(GetItem(dataset, loader_pos + 1))
       IN /\ index_features' = VStack(index_features, batch)
          /\ index_names' = ExtendNames(index_names, batch)
    /\ loader_pos' = loader_pos + 1
    /\ UNCHANGED <<dataset, predicted_features, distances, sorted_indices,
                   sorted_index_names, inf_pc>>

\* the exception of __getitem__ leaves the DataLoader and the for loop
ExtractRaise ==
    /\ inf_pc = "extract"
    /\ loader_pos < Len(dataset)
    /\ ItemRaises(dataset_cls, dataset, loader_pos + 1)
    /\ inf_pc' = "raised"
    /\ UNCHANGED <<dataset, loader_pos, index_names, index_features, predicted_features,
                   distances, sorted_indices, sorted_index_names>>

\* the loop is exhausted: extract_index_features returns
ExtractReturn ==
    /\ inf_pc = "extract"
    /\ loader_pos = Len(dataset)
    /\ inf_pc' = "rank"
    /\ UNCHANGED <<dataset, loader_pos, index_names, index_features, predicted_features,
                   distances, sorted_indices, sorted_index_names>>

(***************************************************************************)
(* get_predictions (inference.py 100-133)                                  *)
(***************************************************************************)
\* distances = 1 - predicted_features @ F.normalize(index_features).T, in 1/Unit^2
Distances(query, features) ==
    [i \in 1..Len(features) |-> Unit * Unit - Dot(query, Normalize(features[i]))]

IsPermutation(p, n) ==
    /\ DOMAIN p = 1..n
    /\ \A i \in 1..n : \E j \in 1..n : p[j] = i

\* ArgSort in descending order
ArgSortDescending(d) ==
    {p \in [1..Len(d) -> 1..Len(d)] :
        /\ IsPermutation(p, Len(d))
        /\ \A i \in 1..(Len(d) - 1) : d[p[i]] >= d[p[i + 1]]}

\* torch.argsort(distances, dim=-1), stable left at its default False: every
\* ascending order of the row, equal entries in any order
ArgSort(d) ==
    {p \in [1..Len(d) -> 1..Len(d)] :
        /\ IsPermutation(p, Len(d))
        /\ \A i \in 1..(Len(d) - 1) : d[p[i]] <= d[p[i + 1]]}

\* np.array(index_names)[sorted_indices]
TakeNames(names, indices) == [i \in 1..Len(indices) |-> names[indices[i]]]

get_predictions ==
    /\ inf_pc = "rank"
    /\ \E q \in QueryFeatures :
          /\ predicted_features' = q
          /\ distances' = Distances(q, index_features)
          /\ \E p \in ArgSort(Distances(q, index_features)) :
                /\ sorted_indices' = p
                /\ sorted_index_names' = TakeNames(index_names, p)
    /\ inf_pc' = "done"
    /\ UNCHANGED <<dataset, loader_pos, index_names, index_features>>

(***************************************************************************)
(* inference (inference.py 149-157) called again, and __main__ (207-210)   *)
(***************************************************************************)
InitSession ==
    /\ dataset_cls = "WikiartDataset"
    /\ calls = 1
    /\ index_builds = 1
    /\ printed = <<>>

\* the next call of inference() in the session: a new WikiartDataset over the
\* same directory and extract_index_features from its first item, the
\* index of the call before dropped with its frame
inference ==
    /\ inf_pc = "done"
    /\ calls < MaxCalls
    /\ calls' = calls + 1
    /\ index_builds' = index_builds + 1
    /\ loader_pos' = 0
    /\ index_names' = <<>>
    /\ index_features' = <<>>
    /\ predicted_features' = <<0, 0>>
    /\ distances' = <<>>
    /\ sorted_indices' = <<>>
    /\ sorted_index_names' = <<>>
    /\ inf_pc' = "extract"
    /\ UNCHANGED <<dataset, dataset_cls, printed>>

\* the number of the slice sorted_index_names[:5]
TopK == 5

\* what get_predictions returns: one row per query, predictions() encoding
\* the one query as a batch of one (unsqueeze(0))
ReturnedArray(row) == <<row>>

\* array[:k]: the first k entries along the first axis
SliceRows(array, k) == SubSeq(array, 1, Min(k, Len(array)))

\* the galleries drawn for the command line: TopK or TopK + 1 images
CommandLineDatasets ==
    UNION {[1..n -> [feature : {<<5, 0>>, <<0, 5>>}, ok : {TRUE}]] : n \in TopK..(TopK + 1)}

InitCommandLine ==
    /\ dataset \in CommandLineDatasets
    /\ loader_pos = 0
    /\ index_names = <<>>
    /\ index_features = <<>>
    /\ predicted_features = <<0, 0>>
    /\ distances = <<>>
    /\ sorted_indices = <<>>
    /\ sorted_index_names = <<>>
    /\ inf_pc = "extract"

\* print(sorted_index_names[:5]) on what inference returned
main_print ==
    /\ inf_pc = "done"
    /\ printed' = SliceRows(ReturnedArray(sorted_index_names), TopK)
    /\ inf_pc' = "printed"
    /\ UNCHANGED <<dataset, loader_pos, index_names, index_features, predicted_features,
                   distances, sorted_indices, sorted_index_names, dataset_cls, calls,
                   index_builds>>

\* extract_index_features over a classic-mode dataset of any adapter class
InitExtract ==
    /\ dataset \in Datasets
    /\ dataset_cls \in DatasetClasses
    /\ calls = 1
    /\ index_builds = 1
    /\ printed = <<>>
    /\ loader_pos = 0
    /\ index_names = <<>>
    /\ index_features = <<>>
    /\ predicted_features = <<0, 0>>
    /\ distances = <<>>
    /\ sorted_indices = <<>>
    /\ sorted_index_names = <<>>
    /\ inf_pc = "extract"

(***************************************************************************)
(* The manifests read by the dataset adapters.                             *)
(***************************************************************************)
ImageIds == {"a", "b"}
DressTypes == {"dress", "shirt", "toptee"}

\* the splits whose caption and image-split files exist on disk
FiqSplits == {"test", "train", "val"}
CirrSplits == {"test1", "train", "val"}

RECURSIVE SumLen(_, _)
SumLen(f, S) ==
    IF S = {} THEN 0
    ELSE LET x == CHOOSE y \in S : TRUE
         IN Len(f[x]) + SumLen(f, S \ {x})

Range(s) == {s[i] : i \in 1..Len(s)}
IsInjective(s) == \A i, j \in 1..Len(s) : s[i] = s[j] => i = j

NoFiqSplit == [d \in DressTypes |-> <<>>]
NoFiqCap == [d \in DressTypes |-> <<>>]

\* split.{dress_type}.{split}.json: a list of image names per dress type
FiqSplitFiles ==
    {f \in [DressTypes -> SeqsUpTo(ImageIds, MaxSplitNames)] :
        SumLen(f, DressTypes) <= MaxSplitNames}

\* cap.{dress_type}.{split}.json: a list of triplets per dress type
FiqCapFiles ==
    {f \in [DressTypes -> SeqsUpTo([candidate : ImageIds, target : ImageIds], MaxCapTriplets)] :
        SumLen(f, DressTypes) <= MaxCapTriplets}

\* split.rc2.{split}.json: an object, its keys in file order
CirrSplitFiles == {s \in SeqsUpTo(ImageIds, MaxSplitNames) : IsInjective(s)}

\* cap.rc2.{split}.json: triplets; target_hard is missing in the test split ("" here)
CirrCapFiles ==
    SeqsUpTo([reference : ImageIds, target_hard : ImageIds \cup {""}], MaxCapTriplets)

\* cap.extend_clip.train.json and cap.rc2.train.extend_clip.json (the _llm
\* files alike: llmcap replaces the captions, not the names)
FiqExtendFiles == SeqsUpTo([candidate : ImageIds, target : ImageIds], MaxExtendTriplets)
CirrExtendFiles ==
    SeqsUpTo([reference : ImageIds, target_hard : ImageIds \cup {""}], MaxExtendTriplets)

(***************************************************************************)
(* The identifier tables of the train split (data_utils.py 422-449).       *)
(***************************************************************************)
\* dict[k] = v
Put(f, k, v) == [x \in DOMAIN f \cup {k} |-> IF x = k THEN v ELSE f[x]]

EmptyTables ==
    [targetname2id |-> <<>>, target_id |-> 0,
     imagename2id |-> <<>>, image_id |-> 0, imagenames |-> <<>>]

\* lines 428-430
AddTarget(t, name) ==
    IF name \in DOMAIN t.targetname2id THEN t
    ELSE [t EXCEPT !.targetname2id = Put(@, name, t.target_id), !.target_id = @ + 1]

\* lines 431-434 and 435-438
AddImage(t, name) ==
    IF name \in DOMAIN t.imagename2id THEN t
    ELSE [t EXCEPT !.imagename2id = Put(@, name, t.image_id), !.image_id = @ + 1,
                   !.imagenames = Append(@, name)]

\* AddTriplet entering the target before the reference
AddTripletTargetFirst(t, triplet) ==
    AddImage(AddImage(AddTarget(t, triplet.target_name), triplet.target_name),
             triplet.reference_name)

\* one iteration of the loop of lines 425-438
AddTriplet(t, triplet) ==
    AddImage(AddImage(AddTarget(t, triplet.target_name), triplet.reference_name),
             triplet.target_name)

\* the loop of lines 425-438 from the tables t
RECURSIVE TrainTables(_, _)
TrainTables(t, ts) ==
    IF ts = <<>> THEN t ELSE TrainTables(AddTriplet(t, Head(ts)), Tail(ts))

\* os.path.join(image_path, name + '.png'), or the relative path of the name
ImagePath(data_name, name) ==
    IF data_name = "fiq" THEN <<"images", name, ".png">> ELSE <<"relpath", name>>

ImagePaths(data_name, names) == [i \in 1..Len(names) |-> ImagePath(data_name, names[i])]

\* optimized_images.json: absent, or the 3-list (imagenames, imagepaths,
\* imagename2id) as a train set of FashionIQ once gave it
NoSnapshot ==
    [exists |-> FALSE, imagenames |-> <<>>, imagepaths |-> <<>>, imagename2id |-> <<>>]

SnapshotOf(ts) ==
    LET t == TrainTables(EmptyTables, ts)
    IN [exists |-> TRUE, imagenames |-> t.imagenames,
        imagepaths |-> ImagePaths("fiq", t.imagenames), imagename2id |-> t.imagename2id]

Snapshots ==
    {NoSnapshot} \cup
    {SnapshotOf(ts) : ts \in SeqsUpTo([reference_name : ImageIds, target_name : ImageIds],
                                       MaxSnapshotTriplets)}

(***************************************************************************)
(* Constructor arguments.                                                  *)
(***************************************************************************)
Splits == {"train", "val", "test", "test1", "dev"}
Modes == {"relative", "classic", "gallery"}
NoDressTypes == [given |-> FALSE, list |-> <<>>]
DressList(l) == [given |-> TRUE, list |-> l]

FashionIQArgs ==
    [cls : {"FashionIQDataset"}, data_name : {"fiq"}, split : Splits, mode : Modes,
     dress_types : {DressList(<<"dress">>), DressList(<<"dress", "shirt", "toptee">>),
                    DressList(<<"hat">>)},
     fiq_val_type : {0}]

CIRRArgs ==
    [cls : {"CIRRDataset"}, data_name : {"cirr"}, split : Splits, mode : Modes,
     dress_types : {NoDressTypes}, fiq_val_type : {0}]

\* plus at its default False; val_ret_train is drawn where it is read (split
\* 'val' in relative mode) and at its default False elsewhere
CIRArgs ==
    {a \in [cls : {"CIRDataset"}, data_name : {"fiq"}, split : Splits, mode : Modes,
            dress_types : {NoDressTypes, DressList(<<"dress", "shirt">>),
                           DressList(<<"hat">>)},
            fiq_val_type : {0, 1, 2}, plus : {FALSE}, val_ret_train : BOOLEAN]
        \cup
        [cls : {"CIRDataset"}, data_name : {"cirr", "circo"}, split : Splits, mode : Modes,
         dress_types : {NoDressTypes}, fiq_val_type : {0}, plus : {FALSE},
         val_ret_train : BOOLEAN] :
        a.val_ret_train => (a.split = "val" /\ a.mode = "relative")}

\* the train sets drawn with the extended manifest and the snapshot: relative
\* mode, one dress type for 'fiq'
TrainArgs ==
    [cls : {"CIRDataset"}, data_name : {"fiq"}, split : {"train"}, mode : {"relative"},
     dress_types : {DressList(<<"dress">>)}, fiq_val_type : {0}, plus : BOOLEAN,
     val_ret_train : {FALSE}]
    \cup
    [cls : {"CIRDataset"}, data_name : {"cirr"}, split : {"train"}, mode : {"relative"},
     dress_types : {NoDressTypes}, fiq_val_type : {0}, plus : BOOLEAN,
     val_ret_train : {FALSE}]

\* the manifests drawn for a call: those its data_name reads; of the FashionIQ
\* files the image-split files vary when the classic sequence is image_names,
\* the caption files otherwise
FilesFor(a) ==
    IF a.data_name = "fiq"
    THEN IF a.mode = "classic" /\ ~(a.fiq_val_type = 1 /\ a.split = "val")
         THEN [fiq_split : FiqSplitFiles, fiq_cap : {NoFiqCap},
               cirr_split : {<<>>}, cirr_cap : {<<>>}, fiq_extend : {<<>>},
               cirr_extend : {<<>>}, optimized_images : {NoSnapshot}]
         ELSE [fiq_split : {NoFiqSplit}, fiq_cap : FiqCapFiles,
               cirr_split : {<<>>}, cirr_cap : {<<>>}, fiq_extend : {<<>>},
               cirr_extend : {<<>>}, optimized_images : {NoSnapshot}]
    ELSE IF a.data_name = "cirr"
    THEN [fiq_split : {NoFiqSplit}, fiq_cap : {NoFiqCap},
          cirr_split : CirrSplitFiles, cirr_cap : CirrCapFiles, fiq_extend : {<<>>},
          cirr_extend : {<<>>}, optimized_images : {NoSnapshot}]
    ELSE [fiq_split : {NoFiqSplit}, fiq_cap : {NoFiqCap},
          cirr_split : {<<>>}, cirr_cap : {<<>>}, fiq_extend : {<<>>},
          cirr_extend : {<<>>}, optimized_images : {NoSnapshot}]

\* the files drawn for a train set: the caption files of the dress types read,
\* the extended manifest when plus reads it, and optimized_images.json
TrainFilesFor(a) ==
    IF a.data_name = "fiq"
    THEN [fiq_split : {NoFiqSplit},
          fiq_cap : {f \in FiqCapFiles :
                        \A d \in DressTypes : d \notin Range(a.dress_types.list) => f[d] = <<>>},
          cirr_split : {<<>>}, cirr_cap : {<<>>},
          fiq_extend : IF a.plus THEN FiqExtendFiles ELSE {<<>>},
          cirr_extend : {<<>>}, optimized_images : Snapshots]
    ELSE [fiq_split : {NoFiqSplit}, fiq_cap : {NoFiqCap},
          cirr_split : CirrSplitFiles, cirr_cap : CirrCapFiles,
          fiq_extend : {<<>>},
          cirr_extend : IF a.plus THEN CirrExtendFiles ELSE {<<>>},
          optimized_images : Snapshots]

(***************************************************************************)
(* The adapters' constructors (data_utils.py 112-150, 206-234, 325-452).   *)
(***************************************************************************)
\* target_id and image_id are -1 where the constructor does not set them
NoObject ==
    [triplets |-> <<>>, image_names |-> <<>>, val_image_names |-> <<>>,
     name_to_relpath |-> <<>>, dress_types |-> <<>>, N |-> 0,
     targetname2id |-> <<>>, target_id |-> -1, imagename2id |-> <<>>, image_id |-> -1,
     imagenames |-> <<>>, imagepaths |-> <<>>]

\* for dress_type in dress_types: extend(json.load(f))
RECURSIVE ExtendAll(_, _)
ExtendAll(f, types) ==
    IF types = <<>> THEN <<>> ELSE f[Head(types)] \o ExtendAll(f, Tail(types))

\* the orders a process's string hashes can give the names of a set's table
HashOrders == {s \in SeqsUpTo(ImageIds, Cardinality(ImageIds)) :
                  IsInjective(s) /\ Range(s) = ImageIds}

\* list(set(names)) in a process whose hashes order the names as `order`
ListOfSet(names, order) == SelectSeq(order, LAMBDA n : n \in Range(names))

\* val_image_names before list(set(...)): reference_name, target_name per triplet
RECURSIVE TripletNames(_)
TripletNames(ts) ==
    IF ts = <<>> THEN <<>>
    ELSE <<Head(ts).reference_name, Head(ts).target_name>> \o TripletNames(Tail(ts))

FiqTriplets(raw) ==
    [i \in 1..Len(raw) |-> [reference_name |-> raw[i].candidate, target_name |-> raw[i].target]]

CirrTriplets(raw) ==
    [i \in 1..Len(raw) |-> [reference_name |-> raw[i].reference,
                            target_name |-> raw[i].target_hard]]

\* FashionIQDataset.__init__: the ValueErrors of lines 128-134
FashionIQRaises(a) ==
    \/ a.mode \notin {"relative", "classic"}
    \/ a.split \notin {"test", "train", "val"}
    \/ \E i \in 1..Len(a.dress_types.list) :
          a.dress_types.list[i] \notin {"dress", "shirt", "toptee"}

FashionIQObject(a, fs) ==
    [NoObject EXCEPT !.dress_types = a.dress_types.list,
                     !.triplets = FiqTriplets(ExtendAll(fs.fiq_cap, a.dress_types.list)),
                     !.image_names = ExtendAll(fs.fiq_split, a.dress_types.list)]

FashionIQDataset_init ==
    /\ ds_pc = "new"
    /\ args.cls = "FashionIQDataset"
    /\ IF FashionIQRaises(args)
       THEN ds_pc' = "raised" /\ UNCHANGED self
       ELSE ds_pc' = "constructed" /\ self' = FashionIQObject(args, files)
    /\ UNCHANGED <<files, args, length, iter_pos, gallery_names, builds>>

\* CIRRDataset.__init__: the ValueErrors of lines 221-224
CIRRRaises(a) ==
    \/ a.split \notin {"test1", "train", "val"}
    \/ a.mode \notin {"relative", "classic"}

CIRRObject(a, fs) ==
    [NoObject EXCEPT !.triplets = CirrTriplets(fs.cirr_cap),
                     !.name_to_relpath = fs.cirr_split]

CIRRDataset_init ==
    /\ ds_pc = "new"
    /\ args.cls = "CIRRDataset"
    /\ IF CIRRRaises(args)
       THEN ds_pc' = "raised" /\ UNCHANGED self
       ELSE ds_pc' = "constructed" /\ self' = CIRRObject(args, files)
    /\ UNCHANGED <<files, args, length, iter_pos, gallery_names, builds>>

\* dress_types of CIRDataset after lines 328-332
CIRDressTypes(a) ==
    IF a.dress_types.given THEN a.dress_types.list ELSE <<"dress", "shirt", "toptee">>

\* the triplets CIRDataset reads for 'cirr': cap.rc2.{split}.json, then the
\* extended manifest (394-406)
CirrRaw(a, fs) ==
    fs.cirr_cap \o (IF a.split = "train" /\ a.plus THEN fs.cirr_extend ELSE <<>>)

\* the triplets CIRDataset reads for 'fiq': cap.{dress_type}.{split}.json of
\* every dress type, then the extended manifest (350-364)
FiqRaw(a, fs, types) ==
    ExtendAll(fs.fiq_cap, types)
        \o (IF a.split = "train" /\ a.plus THEN fs.fiq_extend ELSE <<>>)

\* CIRDataset.__init__ raises: the assert of line 332, open() of a file that
\* does not exist (351, 378, 390, 392), a name missing from name_to_relpath
\* (409-414, and 442 for the empty target name of a train triplet)
CIRRaises(a, fs) ==
    \/ /\ a.dress_types.given
       /\ \E i \in 1..Len(a.dress_types.list) :
             a.dress_types.list[i] \notin {"dress", "shirt", "toptee"}
    \/ /\ a.data_name = "fiq"
       /\ CIRDressTypes(a) # <<>>
       /\ a.split \notin FiqSplits
    \/ /\ a.data_name = "cirr"
       /\ \/ a.split \notin CirrSplits
          \/ \E i \in 1..Len(CirrRaw(a, fs)) :
                \/ CirrRaw(a, fs)[i].reference \notin Range(fs.cirr_split)
                \/ /\ CirrRaw(a, fs)[i].target_hard # ""
                   /\ CirrRaw(a, fs)[i].target_hard \notin Range(fs.cirr_split)
                \/ /\ CirrRaw(a, fs)[i].target_hard = ""
                   /\ a.split = "train"

\* the fields CIRDataset.__init__ sets in lines 333-421; `order` places the
\* names of list(set(self.val_image_names)) at line 385
CIRManifests(a, fs, order) ==
    IF a.data_name = "fiq"
    THEN LET ts == FiqTriplets(FiqRaw(a, fs, CIRDressTypes(a)))
         IN [NoObject EXCEPT
                !.dress_types = CIRDressTypes(a),
                !.triplets = ts,
                !.N = Len(ExtendAll(fs.fiq_cap, CIRDressTypes(a))),
                !.image_names = ExtendAll(fs.fiq_split, CIRDressTypes(a)),
                !.val_image_names =
                    IF a.fiq_val_type = 1 /\ a.split = "val"
                    THEN ListOfSet(TripletNames(ts), order) ELSE <<>>]
    ELSE IF a.data_name = "cirr"
    THEN [NoObject EXCEPT !.dress_types = CIRDressTypes(a),
                          !.triplets = CirrTriplets(CirrRaw(a, fs)),
                          !.N = Len(fs.cirr_cap),
                          !.name_to_relpath = fs.cirr_split]
    ELSE [NoObject EXCEPT !.dress_types = CIRDressTypes(a)]

\* lines 422-449 on the object o: the tables of the triplets, then the
\* snapshot in place of imagenames, imagepaths and imagename2id when the file
\* exists, image_id following it
WithTrainTables(a, fs, o) ==
    LET t == TrainTables(EmptyTables, o.triplets)
        computed == [o EXCEPT !.targetname2id = t.targetname2id,
                              !.target_id = t.target_id,
                              !.imagename2id = t.imagename2id,
                              !.image_id = t.image_id,
                              !.imagenames = t.imagenames,
                              !.imagepaths = ImagePaths(a.data_name, t.imagenames)]
    IN IF fs.optimized_images.exists
       THEN [computed EXCEPT !.imagenames = fs.optimized_images.imagenames,
                             !.imagepaths = fs.optimized_images.imagepaths,
                             !.imagename2id = fs.optimized_images.imagename2id,
                             !.image_id = Len(fs.optimized_images.imagenames)]
       ELSE computed

\* the object CIRDataset.__init__ leaves
CIRObject(a, fs, order) ==
    IF a.split = "train" THEN WithTrainTables(a, fs, CIRManifests(a, fs, order))
    ELSE CIRManifests(a, fs, order)

CIRDataset_init ==
    /\ ds_pc = "new"
    /\ args.cls = "CIRDataset"
    /\ IF CIRRaises(args, files)
       THEN ds_pc' = "raised" /\ UNCHANGED self
       ELSE /\ ds_pc' = "constructed"
            /\ \E order \in HashOrders : self' = CIRObject(args, files, order)
    /\ UNCHANGED <<files, args, length, iter_pos, gallery_names, builds>>

(***************************************************************************)
(* __len__ and classic-mode __getitem__ (data_utils.py 152-192, 236-278,   *)
(* 454-529); None is -1 for a length and [none |-> TRUE] for an item.      *)
(***************************************************************************)
DatasetLen(a, obj) ==
    IF a.mode = "relative" THEN Len(obj.triplets)
    ELSE IF a.mode = "classic"
    THEN IF a.cls = "FashionIQDataset" THEN Len(obj.image_names)
         ELSE IF a.cls = "CIRRDataset" THEN Len(obj.name_to_relpath)
         ELSE IF a.data_name = "fiq"
         THEN IF a.fiq_val_type = 0 THEN Len(obj.image_names)
              ELSE Len(obj.val_image_names)
         ELSE IF a.data_name = "cirr" THEN Len(obj.name_to_relpath)
         ELSE -1
    ELSE -1

\* the item of a classic-mode adapter at `index` (from 1)
ClassicItem(a, obj, index) ==
    IF a.cls = "FashionIQDataset"
    THEN [none |-> FALSE, name |-> obj.image_names[index]]
    ELSE IF a.cls = "CIRRDataset"
    THEN [none |-> FALSE, name |-> obj.name_to_relpath[index]]
    ELSE IF a.data_name = "fiq"
    THEN IF a.fiq_val_type = 0 THEN [none |-> FALSE, name |-> obj.image_names[index]]
         ELSE IF a.fiq_val_type = 1 THEN [none |-> FALSE, name |-> obj.val_image_names[index]]
         ELSE [none |-> TRUE]
    ELSE IF a.data_name = "cirr"
    THEN [none |-> FALSE, name |-> obj.name_to_relpath[index]]
    ELSE [none |-> TRUE]

NoItem == [none |-> FALSE, kind |-> "no item"]

\* CIRDataset.__getitem__ in relative mode (455-497) at `index` (from 1): the
\* tuple returned, the exception of a lookup or an assert, or None when no
\* branch returns
RelativeItem(a, obj, index) ==
    LET triplet == obj.triplets[index]
    IN IF a.split = "train"
       THEN IF \/ triplet.target_name \notin DOMAIN obj.targetname2id
               \/ triplet.reference_name \notin DOMAIN obj.imagename2id
               \/ triplet.target_name \notin DOMAIN obj.imagename2id
            THEN [none |-> FALSE, kind |-> "KeyError"]
            ELSE [none |-> FALSE, kind |-> "train", index |-> index - 1,
                  target_index |-> obj.targetname2id[triplet.target_name],
                  reference_index_all |-> obj.imagename2id[triplet.reference_name],
                  target_index_all |-> obj.imagename2id[triplet.target_name]]
       ELSE IF a.split = "val" /\ a.val_ret_train
       THEN [none |-> FALSE, kind |-> "val_ret_train"]
       ELSE IF a.split = "val"
       THEN IF a.data_name \in {"fiq", "cirr"}
            THEN [none |-> FALSE, kind |-> "val",
                  reference_name |-> triplet.reference_name,
                  target_name |-> triplet.target_name]
            ELSE [none |-> TRUE, kind |-> "None"]
       ELSE IF a.split = "test1"
       THEN IF a.data_name = "cirr"
            THEN [none |-> FALSE, kind |-> "test1",
                  reference_name |-> triplet.reference_name]
            ELSE [none |-> FALSE, kind |-> "AssertionError"]
       ELSE [none |-> TRUE, kind |-> "None"]

InitAdapter ==
    /\ args \in FashionIQArgs \cup CIRRArgs \cup CIRArgs
    /\ got_item = NoItem
    /\ files \in FilesFor(args)
    /\ self = NoObject
    /\ length = -1
    /\ iter_pos = 0
    /\ gallery_names = <<>>
    /\ builds = <<>>
    /\ ds_pc = "new"

InitTrain ==
    /\ args \in TrainArgs
    /\ got_item = NoItem
    /\ files \in TrainFilesFor(args)
    /\ self = NoObject
    /\ length = -1
    /\ iter_pos = 0
    /\ gallery_names = <<>>
    /\ builds = <<>>
    /\ ds_pc = "new"

\* len(dataset), asked by the DataLoader: a TypeError when __len__ returns None
DatasetLength ==
    /\ ds_pc = "constructed"
    /\ IF DatasetLen(args, self) = -1
       THEN ds_pc' = "len_raised" /\ UNCHANGED length
       ELSE /\ length' = DatasetLen(args, self)
            /\ ds_pc' = IF args.mode = "classic" THEN "iterating" ELSE "relative"
    /\ UNCHANGED <<files, args, self, iter_pos, gallery_names, builds>>

\* dataset[iter_pos] on a relative-mode CIRDataset, index after index
CIRDataset_getitem ==
    /\ ds_pc = "relative"
    /\ args.cls = "CIRDataset"
    /\ iter_pos < length
    /\ got_item' = RelativeItem(args, self, iter_pos + 1)
    /\ iter_pos' = iter_pos + 1
    /\ ds_pc' = IF RelativeItem(args, self, iter_pos + 1).kind
                      \in {"KeyError", "AssertionError"}
                THEN "getitem_raised" ELSE "relative"
    /\ UNCHANGED <<files, args, self, length, gallery_names, builds>>

\* one iteration of the index build over a classic-mode adapter
BuildStep ==
    /\ ds_pc = "iterating"
    /\ iter_pos < length
    /\ gallery_names' =
          ExtendNames(gallery_names, Collate(ClassicItem(args, self, iter_pos + 1)))
    /\ iter_pos' = iter_pos + 1
    /\ UNCHANGED <<files, args, self, length, builds, ds_pc>>

\* the index build returns its identifier list
BuildReturn ==
    /\ ds_pc = "iterating"
    /\ iter_pos = length
    /\ builds' = Append(builds, gallery_names)
    /\ ds_pc' = "built"
    /\ UNCHANGED <<files, args, self, length, iter_pos, gallery_names>>

\* the same call again, on the same manifests
Rebuild ==
    /\ ds_pc = "built"
    /\ Len(builds) < MaxBuilds
    /\ self' = NoObject
    /\ length' = -1
    /\ iter_pos' = 0
    /\ gallery_names' = <<>>
    /\ ds_pc' = "new"
    /\ UNCHANGED <<files, args, builds>>

(***************************************************************************)
(* Idle values of each component, for the specifications of the others.    *)
(***************************************************************************)
IdleCaption ==
    /\ captions = <<<<>>, <<>>>>
    /\ type = -1
    /\ random_num = Q(0, 1)
    /\ caption = <<>>
    /\ cap_pc = "idle"

IdlePad ==
    /\ image_size = <<1, 1>>
    /\ target_ratio = Q(1, 1)
    /\ padding = <<>>
    /\ padded_size = <<0, 0>>
    /\ pad_pc = "idle"

IdleTransform ==
    /\ image_mode = "RGB"
    /\ dim = 1
    /\ output_shape = <<>>

IdleInference ==
    /\ dataset = <<>>
    /\ loader_pos = 0
    /\ index_names = <<>>
    /\ index_features = <<>>
    /\ predicted_features = <<0, 0>>
    /\ distances = <<>>
    /\ sorted_indices = <<>>
    /\ sorted_index_names = <<>>
    /\ inf_pc = "idle"

IdleSession ==
    /\ dataset_cls = "WikiartDataset"
    /\ calls = 0
    /\ index_builds = 0
    /\ printed = <<>>

IdleAdapter ==
    /\ files = [fiq_split |-> NoFiqSplit, fiq_cap |-> NoFiqCap,
                cirr_split |-> <<>>, cirr_cap |-> <<>>, fiq_extend |-> <<>>,
                cirr_extend |-> <<>>, optimized_images |-> NoSnapshot]
    /\ args = [cls |-> "none"]
    /\ self = NoObject
    /\ length = -1
    /\ iter_pos = 0
    /\ gallery_names = <<>>
    /\ builds = <<>>
    /\ ds_pc = "idle"
    /\ got_item = NoItem

(***************************************************************************)
(* Specifications.                                                         *)
(***************************************************************************)
NextCaption ==
    generate_randomized_fiq_caption /\ UNCHANGED <<padVars, transformVars, inferenceVars, sessionVars, adapterVars>>
CaptionInit == InitCaption /\ IdlePad /\ IdleTransform /\ IdleInference /\ IdleSession /\ IdleAdapter
SpecCaption == CaptionInit /\ [][NextCaption]_vars

NextPad ==
    \/ TargetPad /\ UNCHANGED <<captionVars, transformVars, inferenceVars, sessionVars, adapterVars>>
    \/ SquarePad /\ UNCHANGED <<captionVars, transformVars, inferenceVars, sessionVars, adapterVars>>
    \/ squarepad_transform /\ UNCHANGED <<captionVars, inferenceVars, sessionVars, adapterVars>>
    \/ targetpad_transform /\ UNCHANGED <<captionVars, inferenceVars, sessionVars, adapterVars>>
PadInit == InitPad /\ InitTransform /\ IdleCaption /\ IdleInference /\ IdleSession /\ IdleAdapter
SpecPad == PadInit /\ [][NextPad]_vars

otherVars == <<captionVars, padVars, transformVars, adapterVars>>

NextInference ==
    \/ ExtractStep /\ UNCHANGED <<sessionVars, otherVars>>
    \/ ExtractReturn /\ UNCHANGED <<sessionVars, otherVars>>
    \/ get_predictions /\ UNCHANGED <<sessionVars, otherVars>>
    \/ inference /\ UNCHANGED otherVars
InferenceInit ==
    InitInference /\ InitSession /\ IdleCaption /\ IdlePad /\ IdleTransform /\ IdleAdapter
SpecInference == InferenceInit /\ [][NextInference]_vars

NextCommandLine ==
    \/ ExtractStep /\ UNCHANGED <<sessionVars, otherVars>>
    \/ ExtractReturn /\ UNCHANGED <<sessionVars, otherVars>>
    \/ get_predictions /\ UNCHANGED <<sessionVars, otherVars>>
    \/ main_print /\ UNCHANGED otherVars
CommandLineInit ==
    InitCommandLine /\ InitSession /\ IdleCaption /\ IdlePad /\ IdleTransform /\ IdleAdapter
SpecCommandLine == CommandLineInit /\ [][NextCommandLine]_vars

NextExtract ==
    \/ ExtractStep /\ UNCHANGED <<sessionVars, otherVars>>
    \/ ExtractRaise /\ UNCHANGED <<sessionVars, otherVars>>
    \/ ExtractReturn /\ UNCHANGED <<sessionVars, otherVars>>
ExtractInit == InitExtract /\ IdleCaption /\ IdlePad /\ IdleTransform /\ IdleAdapter
SpecExtract == ExtractInit /\ [][NextExtract]_vars

NextAdapter ==
    \/ FashionIQDataset_init /\ UNCHANGED <<captionVars, padVars, transformVars, inferenceVars, sessionVars, got_item>>
    \/ CIRRDataset_init /\ UNCHANGED <<captionVars, padVars, transformVars, inferenceVars, sessionVars, got_item>>
    \/ CIRDataset_init /\ UNCHANGED <<captionVars, padVars, transformVars, inferenceVars, sessionVars, got_item>>
    \/ DatasetLength /\ UNCHANGED <<captionVars, padVars, transformVars, inferenceVars, sessionVars, got_item>>
    \/ BuildStep /\ UNCHANGED <<captionVars, padVars, transformVars, inferenceVars, sessionVars, got_item>>
    \/ BuildReturn /\ UNCHANGED <<captionVars, padVars, transformVars, inferenceVars, sessionVars, got_item>>
    \/ Rebuild /\ UNCHANGED <<captionVars, padVars, transformVars, inferenceVars, sessionVars, got_item>>
    \/ CIRDataset_getitem /\ UNCHANGED <<captionVars, padVars, transformVars, inferenceVars, sessionVars>>
NextTrain ==
    \/ CIRDataset_init /\ UNCHANGED <<captionVars, padVars, transformVars, inferenceVars, sessionVars, got_item>>
    \/ DatasetLength /\ UNCHANGED <<captionVars, padVars, transformVars, inferenceVars, sessionVars, got_item>>
    \/ CIRDataset_getitem /\ UNCHANGED <<captionVars, padVars, transformVars, inferenceVars, sessionVars>>
TrainInit ==
    InitTrain /\ IdleCaption /\ IdlePad /\ IdleTransform /\ IdleInference /\ IdleSession
SpecTrain == TrainInit /\ [][NextTrain]_vars

AdapterInit ==
    InitAdapter /\ IdleCaption /\ IdlePad /\ IdleTransform /\ IdleInference /\ IdleSession
SpecAdapter == AdapterInit /\ [][NextAdapter]_vars

(***************************************************************************)
(* Properties.                                                             *)
(***************************************************************************)
\* the caption the quartile rule assigns to a draw r in [0, 1)
QuartileCaption(caps, r) ==
    IF LessQ(r, Q(1, 4)) THEN Strip(caps[1]) \o AndWord \o Strip(caps[2])
    ELSE IF LessQ(r, Q(1, 2)) THEN Strip(caps[2]) \o AndWord \o Strip(caps[1])
    ELSE IF LessQ(r, Q(3, 4)) THEN Strip(caps[1])
    ELSE Strip(caps[2])

\* C1: without a selector override, every draw r yields "A and B" on [0, 0.25),
\* "B and A" on [0.25, 0.5), "A" on [0.5, 0.75) and "B" on [0.75, 1), the
\* boundary draws 0.25, 0.5 and 0.75 included, A and B stripped.
C1_QuartileCaptions ==
    (cap_pc = "done" /\ type = -1) => caption = QuartileCaption(captions, random_num)

\* the cosine distance of a query to one gallery row, in 1/Unit^2
CosineDistance(query, row) == Unit * Unit - Dot(query, Normalize(row))

\* the embedding row stored for an identifier of the index
RowOf(name) == index_features[CHOOSE k \in 1..Len(index_names) : index_names[k] = name]

\* C2: over a non-empty index the returned ranking holds every gallery
\* identifier exactly once, in non-decreasing cosine distance to the query.
C2_RankingIsSortedPermutation ==
    (inf_pc = "done" /\ Len(index_names) > 0) =>
        /\ Len(sorted_index_names) = Len(index_names)
        /\ \A k \in 1..Len(index_names) :
              Cardinality({j \in 1..Len(sorted_index_names) :
                              sorted_index_names[j] = index_names[k]}) = 1
        /\ \A j \in 1..(Len(sorted_index_names) - 1) :
              CosineDistance(predicted_features, RowOf(sorted_index_names[j]))
                 <= CosineDistance(predicted_features, RowOf(sorted_index_names[j + 1]))

\* a ranking of three items that moved the first gallery item off the first place
C2_Witness ==
    /\ inf_pc = "done"
    /\ Len(index_names) >= 3
    /\ sorted_index_names[1] # index_names[1]
    /\ CosineDistance(predicted_features, RowOf(sorted_index_names[1]))
          < CosineDistance(predicted_features, RowOf(sorted_index_names[Len(index_names)]))

\* the place of an identifier in the index
PlaceOf(name) == CHOOSE k \in 1..Len(index_names) : index_names[k] = name

\* C3: gallery items at equal distance to the query are returned in their
\* original gallery order.
C3_TiesKeepGalleryOrder ==
    inf_pc = "done" =>
        \A i, j \in 1..Len(sorted_index_names) :
            (i < j /\ CosineDistance(predicted_features, RowOf(sorted_index_names[i]))
                        = CosineDistance(predicted_features, RowOf(sorted_index_names[j])))
               => PlaceOf(sorted_index_names[i]) < PlaceOf(sorted_index_names[j])

\* C4: every distance computed in get_predictions lies in [0, 2], whatever
\* the norm of the composed query.
C4_DistancesWithinZeroTwo ==
    inf_pc = "done" =>
        \A i \in 1..Len(distances) : 0 <= distances[i] /\ distances[i] <= 2 * Unit * Unit

\* the places of the first n dataset items that decode, in order
RECURSIVE DecodedPlaces(_, _)
DecodedPlaces(ds, n) ==
    IF n = 0 THEN <<>>
    ELSE IF ds[n].ok THEN Append(DecodedPlaces(ds, n - 1), n)
    ELSE DecodedPlaces(ds, n - 1)

C6_RebuildKeepsOrder ==
    \A i, j \in 1..Len(builds) : builds[i] = builds[j]

\* the distinct image identifiers of the split a classic-mode adapter covers
SplitImageIds(a, fs, obj) ==
    IF a.data_name = "cirr" THEN Range(fs.cirr_split)
    ELSE IF a.cls = "CIRDataset" /\ a.fiq_val_type # 0
    THEN Range(TripletNames(obj.triplets))
    ELSE UNION {Range(fs.fiq_split[obj.dress_types[i]]) : i \in 1..Len(obj.dress_types)}

\* C7: a classic-mode adapter is as long as the split has distinct image
\* identifiers, and its sequence yields no identifier twice.
C7_ClassicSequenceIsDistinct ==
    (ds_pc \in {"iterating", "built"} /\ args.mode = "classic") =>
        /\ length = Cardinality(SplitImageIds(args, files, self))
        /\ IsInjective(gallery_names)

\* the (dataset name, split, mode) combinations the adapters document
SupportedArgs(a) ==
    /\ a.mode \in {"relative", "classic"}
    /\ \/ a.data_name = "fiq" /\ a.split \in {"test", "train", "val"}
       \/ a.data_name = "cirr" /\ a.split \in {"test1", "train", "val"}

\* C8: no adapter with an unknown dataset name, split or mode is ever
\* constructed; the constructor raises instead.
C8_UnknownConfigurationRaises ==
    ds_pc \in {"constructed", "len_raised", "relative", "iterating", "built"}
        => SupportedArgs(args)

\* C9: get_predictions never returns a ranking for an index without rows.
C9_EmptyGalleryIsFatal ==
    inf_pc = "done" => Len(index_features) > 0

\* C10: TargetPad returns the image unchanged below the target ratio;
\* otherwise the longer side stays and the shorter side grows by the same
\* non-negative amount on both edges to short + 2 * floor((long / ratio -
\* short) / 2), which never exceeds long / ratio.
C10_TargetPadBoundsRatio ==
    pad_pc = "done" =>
        LET w == image_size[1]
            h == image_size[2]
            long == Max(w, h)
            short == Min(w, h)
            grown == short + 2 * ((long * target_ratio.den - short * target_ratio.num)
                                     \div (2 * target_ratio.num))
        IN IF long * target_ratio.den < short * target_ratio.num
           THEN padded_size = image_size /\ padding = <<>>
           ELSE /\ padding[1] = padding[3] /\ padding[2] = padding[4]
                /\ \A i \in 1..4 : padding[i] >= 0
                /\ Max(padded_size[1], padded_size[2]) = long
                /\ Min(padded_size[1], padded_size[2]) = grown
                /\ (w >= h) => (padded_size[1] = w /\ padding[1] = 0)
                /\ (h >= w) => (padded_size[2] = h /\ padding[2] = 0)
                /\ grown * target_ratio.num <= long * target_ratio.den

\* a wide image whose height was padded
C10_Witness ==
    /\ pad_pc = "done"
    /\ image_size[1] > image_size[2]
    /\ padding # <<>>
    /\ padded_size[2] > image_size[2]
    /\ padded_size[1] = image_size[1]

\* C11: SquarePad pads only the shorter side and returns a square image of
\* side max(w, h), an odd difference between w and h included.
C11_SquarePadIsSquare ==
    pad_pc = "squared" =>
        /\ padded_size = <<Max(image_size[1], image_size[2]), Max(image_size[1], image_size[2])>>
        /\ (image_size[1] >= image_size[2]) => padding[1] = 0
        /\ (image_size[2] >= image_size[1]) => padding[2] = 0

\* C12: under both padding policies, pad, resize to dim and center-crop give
\* a tensor of exactly 3 x dim x dim, whatever the aspect ratio.
C12_TransformShape ==
    pad_pc \in {"squarepad_transform", "targetpad_transform"} =>
        output_shape = <<3, dim, dim>>

\* a grey image three times as wide as high, through the target-ratio pipeline
C12_Witness ==
    /\ pad_pc = "targetpad_transform"
    /\ image_mode = "L"
    /\ image_size[1] >= 3 * image_size[2]
    /\ dim >= 2
    /\ padded_size[1] # padded_size[2]
    /\ output_shape = <<3, dim, dim>>

\* C13: over the calls of inference() in one session the gallery index is
\* built at most once; later calls rank against the index the first one built.
C13_IndexBuiltOnce ==
    index_builds <= 1

\* the distance of the query to the gallery item of an identifier
DistanceOf(name) == CosineDistance(predicted_features, RowOf(name))

\* the identifiers printed, row after row
RECURSIVE Flatten(_)
Flatten(rows) == IF rows = <<>> THEN <<>> ELSE Head(rows) \o Flatten(Tail(rows))

\* C14: over a gallery of at least five items the command line prints exactly
\* the five nearest identifiers in ascending distance, not the whole ranking.
C14_CommandLinePrintsTopFive ==
    (inf_pc = "printed" /\ Len(index_names) >= TopK) =>
        LET out == Flatten(printed)
        IN /\ Len(out) = TopK
           /\ \A j \in 1..(Len(out) - 1) : DistanceOf(out[j]) <= DistanceOf(out[j + 1])
           /\ \A k \in 1..Len(index_names) :
                 index_names[k] \notin Range(out)
                    => DistanceOf(out[Len(out)]) <= DistanceOf(index_names[k])

\* C16: a decode failure inside __getitem__ never aborts the iteration,
\* whatever the adapter class: the failed item is skipped, the identifier
\* list and the embedding matrix stay equally long and paired item by item,
\* and no None slot reaches the encoder.
C16_DecodeFailureIsSkipped ==
    LET kept == DecodedPlaces(dataset, loader_pos)
    IN /\ inf_pc # "raised"
       /\ Len(index_names) = Len(index_features)
       /\ Len(index_names) = Len(kept)
       /\ \A j \in 1..Len(kept) :
             /\ index_names[j] = ImageName(kept[j])
             /\ index_features[j] = dataset[kept[j]].feature

\* a sequence without its repetitions, first occurrences kept in order
RECURSIVE FirstSeen(_)
FirstSeen(s) ==
    IF s = <<>> THEN <<>>
    ELSE LET before == FirstSeen(SubSeq(s, 1, Len(s) - 1))
         IN IF s[Len(s)] \in Range(before) THEN before ELSE Append(before, s[Len(s)])

TargetNames(ts) == [i \in 1..Len(ts) |-> ts[i].target_name]

\* a CIRDataset of the train split has been constructed
TrainConstructed ==
    /\ ds_pc \notin {"idle", "new", "raised"}
    /\ args.cls = "CIRDataset"
    /\ args.split = "train"

\* dict maps the names of `order` onto 0, 1, ... in that order
NumbersInOrder(dict, order) ==
    /\ DOMAIN dict = Range(order)
    /\ \A i \in 1..Len(order) : dict[order[i]] = i - 1

\* C15: on the train split without a snapshot file, imagename2id numbers the
\* distinct reference and target names 0..image_id-1 in first-seen order
\* (reference before target within a triplet), imagenames is its inverse and
\* image_id its length, targetname2id numbers the distinct target names
\* 0..target_id-1 in first-seen order, and the names only the extended
\* manifest brings are numbered after every name of the base triplets.
C15_TrainTablesFirstSeen ==
    (TrainConstructed /\ ~files.optimized_images.exists) =>
        LET names == FirstSeen(TripletNames(self.triplets))
            targets == FirstSeen(TargetNames(self.triplets))
            base == SubSeq(self.triplets, 1, self.N)
        IN /\ self.imagenames = names
           /\ self.image_id = Len(names)
           /\ NumbersInOrder(self.imagename2id, names)
           /\ \A n \in DOMAIN self.imagename2id :
                 self.imagenames[self.imagename2id[n] + 1] = n
           /\ self.target_id = Len(targets)
           /\ NumbersInOrder(self.targetname2id, targets)
           /\ \A n \in Range(TripletNames(base)) :
                 \A m \in DOMAIN self.imagename2id \ Range(TripletNames(base)) :
                    self.imagename2id[n] < self.imagename2id[m]
           /\ \A n \in Range(TargetNames(base)) :
                 \A m \in DOMAIN self.targetname2id \ Range(TargetNames(base)) :
                    self.targetname2id[n] < self.targetname2id[m]

\* a train set whose extended manifest brings a second name, its base
\* triplets seen first and a reference differing from its target
C15_Witness ==
    /\ TrainConstructed
    /\ ~files.optimized_images.exists
    /\ args.plus
    /\ self.N >= 1
    /\ Len(self.triplets) > self.N
    /\ self.image_id = 2
    /\ self.target_id = 2
    /\ self.triplets[Len(self.triplets)].reference_name
          # self.triplets[Len(self.triplets)].target_name
    /\ self.imagename2id[self.triplets[Len(self.triplets)].target_name] = 0

\* C17: on every index below its length a constructed CIRDataset returns an
\* item, never None: relative mode on the split 'test' of 'fiq' and classic
\* mode with fiq_val_type outside {0, 1} included.
C17_GetItemNeverNone ==
    args.cls = "CIRDataset" =>
        /\ (ds_pc \in {"relative", "getitem_raised"} /\ iter_pos > 0) => ~got_item.none
        /\ ds_pc \in {"iterating", "built"} =>
              \A index \in 1..length : ~ClassicItem(args, self, index).none

\* C18: on the train split, tables computed or taken from the snapshot,
\* every triplet's reference and target name is a key of imagename2id and
\* every target name a key of targetname2id, so that no relative-mode
\* __getitem__ fails on a lookup, and image_id, the length of imagenames and
\* the number of keys of imagename2id are equal.
C18_TrainTablesCoverTriplets ==
    TrainConstructed =>
        /\ \A i \in 1..Len(self.triplets) :
              /\ self.triplets[i].reference_name \in DOMAIN self.imagename2id
              /\ self.triplets[i].target_name \in DOMAIN self.imagename2id
              /\ self.triplets[i].target_name \in DOMAIN self.targetname2id
        /\ got_item.kind # "KeyError"
        /\ self.image_id = Len(self.imagenames)
        /\ self.image_id = Cardinality(DOMAIN self.imagename2id)

====
